---- MODULE Spec2Model ----
(***************************************************************************)
(* Model of qman.py: the batch dispatch of the __main__ block (lines       *)
(* 186-221) over the QualtricsManager API client (lines 55-141).           *)
(*                                                                         *)
(* The remote service is the environment: every request is answered at     *)
(* the moment it is made, either with an HTTP error status or with a       *)
(* payload drawn from a small set.  Python dicts are modelled as           *)
(* sequences of <<key, value>> pairs in insertion order.  Python strings   *)
(* typed by the operator are sequences of one-character strings so that    *)
(* str.lower() is computed and not assumed.                                *)
(***************************************************************************)
EXTENDS Integers, Sequences, FiniteSets

VARIABLES
    op,           \* the subcommand docopt selected (args['info'] ... args['delete'])
    noFilter,     \* args['--no-filter']
    filter,       \* CONFIG['filter']
    users,        \* the identifier list built at lines 177-184
    pc,           \* position of the script
    i,            \* number of identifiers the running for-loop has started
    user,         \* the loop variable `user` (read by the except clause)
    result,       \* the dict `result`
    calls,        \* every HTTP request issued so far, in order
    answer,       \* the variable `answer` of the delete branch
    prompts,      \* number of input() calls made by the delete branch
    output,       \* what the script printed, in order
    exc,          \* the exception that ended the script, "" if none
    request_url,  \* local of users(): page to fetch next, 0 when falsy
    page_users,   \* local `users` of QualtricsManager.users (the accumulator)
    pages,        \* the pages served to the running/last list call, in order
    ret           \* return value of the last list call

vars == <<op, noFilter, filter, users, pc, i, user, result, calls, answer,
          prompts, output, exc, request_url, page_users, pages, ret>>

(***************************************************************************)
(* Bounds of the model.                                                    *)
(***************************************************************************)
MaxUsers == 3
MaxPages == 2
MaxPrompts == 2

Ops == {"info", "status", "enable", "disable", "delete"}

\* Identifiers: "" is what a blank line of the identifier file yields after
\* strip() (line 182).
Ids == {"", "u1", "u2"}

HttpCodes == {403, 404}

RECURSIVE SeqsUpTo(_, _)
SeqsUpTo(S, n) ==
    IF n = 0 THEN {<<>>}
    ELSE LET shorter == SeqsUpTo(S, n - 1)
         IN  shorter \cup {Append(s, x) : s \in {t \in shorter : Len(t) = n - 1}, x \in S}

(***************************************************************************)
(* Python dict, insertion ordered.                                         *)
(***************************************************************************)
DictKeys(d) == [j \in 1..Len(d) |-> d[j][1]]

DictHas(d, k) == \E j \in 1..Len(d) : d[j][1] = k

DictGet(d, k) == d[CHOOSE j \in 1..Len(d) : d[j][1] = k][2]

\* d[k] = v : an existing key keeps its place, a new key goes last.
DictSet(d, k, v) ==
    IF DictHas(d, k)
    THEN [j \in 1..Len(d) |-> IF d[j][1] = k THEN <<k, v>> ELSE d[j]]
    ELSE Append(d, <<k, v>>)

(***************************************************************************)
(* str.lower() on the operator's answer.                                   *)
(***************************************************************************)
LowerChar(c) ==
    CASE c = "Y" -> "y"
      [] c = "E" -> "e"
      [] c = "S" -> "s"
      [] c = "N" -> "n"
      [] c = "O" -> "o"
      [] OTHER -> c

Lower(s) == [j \in 1..Len(s) |-> LowerChar(s[j])]

\* What the operator may type at a prompt.
Answers ==
    { <<"y">>, <<"Y">>, <<"y", "e", "s">>, <<"Y", "E", "S">>,
      <<"n">>, <<"n", "o">>, <<"N", "o">>, <<"m">> }

NoAnswer == <<"?">>

\* The list literal ['y', 'yes', 'n', 'no'] of line 208.
ValidAnswers == { <<"y">>, <<"y", "e", "s">>, <<"n">>, <<"n", "o">> }

\* The list literal ['y', 'yes'] of line 210.
YesAnswers == { <<"y">>, <<"y", "e", "s">> }

(***************************************************************************)
(* Requests and responses.                                                 *)
(***************************************************************************)
\* f"{baseurl}/users/{userid}" has page 0; the listing URL f"{baseurl}/users"
\* is page 1 and the server's nextPage cursors are pages 2, 3, ...
UserUrl(userid) == [id |-> userid, page |-> 0]

ListUrl(p) == [id |-> "", page |-> p]

BodyActive == "{\"status\": \"active\"}"

BodyDisabled == "{\"status\": \"disabled\"}"

\* Values stored in `result`: one shape for every kind of payload.
NoErr == [code |-> 0, url |-> UserUrl("")]

PRecord(d) == [kind |-> "record", rec |-> d, text |-> "", err |-> NoErr, list |-> <<>>]

PStatus(s) == [kind |-> "status", rec |-> <<>>, text |-> s, err |-> NoErr, list |-> <<>>]

PList(l) == [kind |-> "list", rec |-> <<>>, text |-> "", err |-> NoErr, list |-> l]

\* str(err) of a requests.HTTPError: "<code> ... Error: ... for url: <url>".
PError(code, url) ==
    [kind |-> "error", rec |-> <<>>, text |-> "", err |-> [code |-> code, url |-> url],
     list |-> <<>>]

\* A 2xx response without a payload (PUT, DELETE).
NoPayload == PStatus("")

\* One HTTP request: what was sent, for which position of the identifier
\* list, and what the service answered (ok: raise_for_status() passes).
Call(method, url, body, pos, resp) ==
    [method |-> method, url |-> url, body |-> body, pos |-> pos,
     ok |-> resp.kind # "error", resp |-> resp]

Errors(url) == {PError(code, url) : code \in HttpCodes}

\* The remote records the service may return for an identifier.
Name(u) == IF u = "u1" THEN "a" ELSE "b"

Mail(u) == IF u = "u1" THEN "a@x.com" ELSE "b@x.com"

RemoteRecords(u) ==
    { << <<"username", Name(u)>>, <<"accountStatus", s>>, <<"email", Mail(u)>> >> :
          s \in {"active", "disabled"} }
    \cup { << <<"username", Name(u)>>, <<"accountStatus", "active">> >>,
           << <<"username", Name(u)>>, <<"email", Mail(u)>> >> }

\* The elements a listing page may carry: the first page may be short, and
\* no element is on two pages.
PageElements(p) == IF p = 1 THEN { <<11>>, <<11, 12>> } ELSE { <<10 * p + 1>> }

\* The nextPage field of a listing page: a URL, null, "" or no field at all.
Cursors == {"url", "null", "empty", "absent"}

(***************************************************************************)
(* QualtricsManager and the helpers of the batch loops.                    *)
(***************************************************************************)
\* `if userid:` (line 88): a str is truthy unless it is empty.
Truthy(userid) == userid # ""

\* response.json()['result']['nextPage'] (line 98) raises KeyError when the
\* field is missing.
HasCursor(cur) == cur # "absent"

\* `while request_url:` (line 95): None and "" end the loop.
NextUrl(p, cur) == IF cur = "url" THEN p + 1 ELSE 0

\* Fault variant of Accumulate: `users = ...` in place of `users += ...`.
AccumulateReplacing(acc, elements) == elements

\* users += response.json()['result']['elements'] (line 99).
Accumulate(acc, elements) == acc \o elements

\* Fault variant of enable_user: the body of disable_user pasted in.
enable_user_disabling(userid, pos, resp) ==
    Call("PUT", UserUrl(userid), BodyDisabled, pos, resp)

\* The PUT of enable_user / disable_user and the DELETE of delete_user.
enable_user(userid, pos, resp) == Call("PUT", UserUrl(userid), BodyActive, pos, resp)

disable_user(userid, pos, resp) == Call("PUT", UserUrl(userid), BodyDisabled, pos, resp)

delete_user(userid, pos, resp) == Call("DELETE", UserUrl(userid), "", pos, resp)

\* {x: response[x] for x in CONFIG['filter']} (line 195), keys all present.
RECURSIVE ProjectInto(_, _, _)
ProjectInto(acc, response, flt) ==
    IF flt = <<>> THEN acc
    ELSE ProjectInto(DictSet(acc, Head(flt), DictGet(response, Head(flt))),
                     response, Tail(flt))

\* Fault variant of Project: the filter is ignored.
ProjectUnfiltered(response, flt) == response

Project(response, flt) == ProjectInto(<<>>, response, flt)

MissingKey(response, flt) == \E j \in 1..Len(flt) : ~DictHas(response, flt[j])

Entry(e, v) == [exc |-> e, val |-> v]

\* Lines 192-195: what the info loop stores for what mgr.users returned.
\* A list (the return value of the listing branch) cannot be indexed by a
\* string: TypeError as soon as the comprehension evaluates response[x].
InfoEntry(response) ==
    IF noFilter THEN Entry("", response)
    ELSE IF response.kind = "list"
         THEN IF filter = <<>> THEN Entry("", PRecord(<<>>))
              ELSE Entry("TypeError", PStatus("TypeError"))
         ELSE IF MissingKey(response.rec, filter)
              THEN Entry("KeyError", PStatus("KeyError"))
              ELSE Entry("", PRecord(Project(response.rec, filter)))

\* Line 199: response['accountStatus'].
StatusEntry(response) ==
    IF response.kind = "list" THEN Entry("TypeError", PStatus("TypeError"))
    ELSE IF ~DictHas(response.rec, "accountStatus")
         THEN Entry("KeyError", PStatus("KeyError"))
         ELSE Entry("", PStatus(DictGet(response.rec, "accountStatus")))

EntryFor(response) == IF op = "info" THEN InfoEntry(response) ELSE StatusEntry(response)

\* Fault variant of Catches: a bare `except Exception`.
CatchesAny(e) == TRUE

\* `except requests.HTTPError as err` (line 215).
Catches(e) == e = "HTTPError"

\* Fault variant of Handle: `result = {user: str(err)}`.
HandleAlone(res, u, errText) == << <<u, errText>> >>

\* Lines 216-217: the body of the except clause.
Handle(res, u, errText) == DictSet(res, u, errText)

\* An exception raised inside the try block while `user` is u.
Raise(e, u, errText) ==
    IF Catches(e)
    THEN /\ result' = Handle(result, u, errText)
         /\ output' = Append(output, "pprint(err)")
         /\ pc' = "render"
         /\ exc' = exc
    ELSE /\ pc' = "fatal"
         /\ exc' = e
         /\ UNCHANGED <<result, output>>

\* Where the for-loop goes after its n-th iteration completed.
Continue(n) == IF n < Len(users) THEN "loop" ELSE "render"

\* result[user] = ... of lines 193, 195, 199, or the exception it raised.
Store(entry, u, n) ==
    IF entry.exc = ""
    THEN /\ result' = DictSet(result, u, entry.val)
         /\ pc' = Continue(n)
         /\ UNCHANGED <<output, exc>>
    ELSE Raise(entry.exc, u, entry.val)

NotReturned == [done |-> FALSE, val |-> <<>>]

Page(p, ok, cur, elements) == [url |-> p, ok |-> ok, next |-> cur, elements |-> elements]

\* mgr.users(user) as called at lines 191 and 198, up to its first request.
UsersCall(u, n) ==
    IF Truthy(u)
    THEN /\ UNCHANGED <<request_url, page_users, pages, ret>>
         /\ \/ \E err \in Errors(UserUrl(u)) :
                 /\ calls' = Append(calls, Call("GET", UserUrl(u), "", n, err))
                 /\ Raise("HTTPError", u, err)
            \/ \E rec \in RemoteRecords(u) :
                 /\ calls' = Append(calls, Call("GET", UserUrl(u), "", n, PRecord(rec)))
                 /\ Store(EntryFor(PRecord(rec)), u, n)
    ELSE /\ request_url' = 1
         /\ page_users' = <<>>
         /\ pages' = <<>>
         /\ ret' = NotReturned
         /\ pc' = "paging"
         /\ UNCHANGED <<calls, result, output, exc>>

(***************************************************************************)
(* Initial state: line 186, after argument parsing and configuration.      *)
(***************************************************************************)
\* attr_filter of setup() (line 50), restricted to the modelled keys.
DefaultFilter == <<"username", "email", "accountStatus">>

\* The values config.yaml may give CONFIG['filter'] (the file is edited by
\* hand: any list of strings, repeats included).
Filters ==
    { <<>>, DefaultFilter,
      <<"username", "accountStatus">>, <<"accountStatus", "username">>,
      <<"email", "username", "email">> }

\* --no-filter and CONFIG['filter'] are read by the info branch only, and
\* the filter only without --no-filter: they vary only where they are read.
Init ==
    /\ op \in Ops
    /\ noFilter \in BOOLEAN
    /\ filter \in Filters
    /\ (op # "info" => ~noFilter)
    /\ (op # "info" \/ noFilter => filter = DefaultFilter)
    /\ users \in SeqsUpTo(Ids, MaxUsers)
    /\ pc = IF op = "delete" THEN "prompt" ELSE Continue(0)
    /\ i = 0
    /\ user = ""
    /\ result = <<>>
    /\ calls = <<>>
    /\ answer = NoAnswer
    /\ prompts = 0
    /\ output = <<>>
    /\ exc = ""
    /\ request_url = 0
    /\ page_users = <<>>
    /\ pages = <<>>
    /\ ret = NotReturned

(***************************************************************************)
(* Actions: one per loop iteration, page request, prompt and final print.  *)
(***************************************************************************)
\* Lines 190-195.
InfoStep ==
    /\ pc = "loop"
    /\ op = "info"
    /\ i' = i + 1
    /\ user' = users[i + 1]
    /\ UsersCall(users[i + 1], i + 1)
    /\ UNCHANGED <<op, noFilter, filter, users, answer, prompts>>

\* Lines 197-199.
StatusStep ==
    /\ pc = "loop"
    /\ op = "status"
    /\ i' = i + 1
    /\ user' = users[i + 1]
    /\ UsersCall(users[i + 1], i + 1)
    /\ UNCHANGED <<op, noFilter, filter, users, answer, prompts>>

\* Lines 95-100: one request of the listing loop; on the last page the
\* function returns and the caller's statement (193/195/199) runs.
UsersPage ==
    /\ pc = "paging"
    /\ \/ \E err \in Errors(ListUrl(request_url)) :
            /\ calls' = Append(calls, Call("GET", ListUrl(request_url), "", i, err))
            /\ pages' = Append(pages, Page(request_url, FALSE, "null", <<>>))
            /\ Raise("HTTPError", user, err)
            /\ UNCHANGED <<request_url, page_users, ret>>
       \/ \E cur \in Cursors, el \in PageElements(request_url) :
            /\ cur = "url" => request_url < MaxPages
            /\ calls' = Append(calls, Call("GET", ListUrl(request_url), "", i, PList(el)))
            /\ pages' = Append(pages, Page(request_url, TRUE, cur, el))
            /\ IF ~HasCursor(cur)
               THEN /\ Raise("KeyError", user, PStatus("KeyError"))
                    /\ UNCHANGED <<request_url, page_users, ret>>
               ELSE /\ request_url' = NextUrl(request_url, cur)
                    /\ page_users' = Accumulate(page_users, el)
                    /\ IF request_url' # 0
                       THEN UNCHANGED <<pc, ret, result, output, exc>>
                       ELSE /\ ret' = [done |-> TRUE, val |-> page_users']
                            /\ Store(EntryFor(PList(page_users')), user, i)
    /\ UNCHANGED <<op, noFilter, filter, users, i, user, answer, prompts>>

\* What the service may answer to a PUT or DELETE.
MutateResponses(u) == {NoPayload} \cup Errors(UserUrl(u))

\* A loop iteration of a mutating operation: one request, no payload.
Mutate(request) ==
    /\ i' = i + 1
    /\ user' = users[i + 1]
    /\ calls' = Append(calls, request)
    /\ IF request.ok
       THEN /\ pc' = Continue(i + 1)
            /\ UNCHANGED <<result, output, exc>>
       ELSE Raise("HTTPError", users[i + 1], request.resp)
    /\ UNCHANGED <<op, noFilter, filter, users, answer, prompts,
                   request_url, page_users, pages, ret>>

\* Lines 201-202.
EnableStep ==
    /\ pc = "loop"
    /\ op = "enable"
    /\ \E resp \in MutateResponses(users[i + 1]) :
          Mutate(enable_user(users[i + 1], i + 1, resp))

\* Lines 204-205.
DisableStep ==
    /\ pc = "loop"
    /\ op = "disable"
    /\ \E resp \in MutateResponses(users[i + 1]) :
          Mutate(disable_user(users[i + 1], i + 1, resp))

\* Lines 211-212.
DeleteStep ==
    /\ pc = "loop"
    /\ op = "delete"
    /\ \E resp \in MutateResponses(users[i + 1]) :
          Mutate(delete_user(users[i + 1], i + 1, resp))

\* Line 208: the loop condition.
Accepted(a) == a \in ValidAnswers

\* Fault variant of Confirmed: line 210 tests the list of line 208.
ConfirmedWhenAccepted(a) == a \in ValidAnswers

\* Line 210.
Confirmed(a) == a \in YesAnswers

\* Lines 208-214 once `answer` is a: prompt again, start deleting, or decline.
Answered(a) ==
    /\ answer' = a
    /\ prompts' = prompts + 1
    /\ IF ~Accepted(a)
       THEN pc' = "reprompt" /\ output' = output
       ELSE IF Confirmed(a)
            THEN pc' = Continue(0) /\ output' = output
            ELSE pc' = "render" /\ output' = Append(output, "No actions taken.")
    /\ UNCHANGED <<op, noFilter, filter, users, i, user, result, calls, exc,
                   request_url, page_users, pages, ret>>

\* Line 207: input(...).lower().
Prompt ==
    /\ pc = "prompt"
    /\ \E typed \in Answers : Answered(Lower(typed))

\* Line 209: input(...), stored as typed.
Reprompt ==
    /\ pc = "reprompt"
    /\ prompts < MaxPrompts
    /\ \E typed \in Answers : Answered(typed)

\* Lines 218-221.
Render ==
    /\ pc = "render"
    /\ output' = IF result # <<>> THEN Append(output, "pprint(result)") ELSE output
    /\ pc' = "done"
    /\ UNCHANGED <<op, noFilter, filter, users, i, user, result, calls, answer,
                   prompts, exc, request_url, page_users, pages, ret>>

Next ==
    \/ InfoStep
    \/ StatusStep
    \/ UsersPage
    \/ EnableStep
    \/ DisableStep
    \/ DeleteStep
    \/ Prompt
    \/ Reprompt
    \/ Render

Spec == Init /\ [][Next]_vars

(***************************************************************************)
(* Vocabulary of the properties.  Everything below reads the state only;   *)
(* expected values are computed from the responses recorded in `calls`,    *)
(* by definitions that do not use the operators of the model above.        *)
(***************************************************************************)
IsLookup == op \in {"info", "status"}

Prompting == pc \in {"prompt", "reprompt"}

CallsAt(n) == Cardinality({j \in 1..Len(calls) : calls[j].pos = n})

AllOk == \A j \in 1..Len(calls) : calls[j].ok

\* The batch was ended by an HTTP error: the last request failed.
HttpFailed == calls # <<>> /\ ~calls[Len(calls)].ok

FailPos == calls[Len(calls)].pos

\* The r-th smallest element of a set of numbers.
Nth(S, r) == CHOOSE x \in S : Cardinality({y \in S : y < x}) = r - 1

\* A sequence without its repeats, each element where it first occurs.
FirstOccurrences(q) ==
    LET idx == {j \in 1..Len(q) : \A m \in 1..(j - 1) : q[m] # q[j]}
    IN  [r \in 1..Cardinality(idx) |-> q[Nth(idx, r)]]

ValueIn(rec, key) == (CHOOSE pair \in {rec[j] : j \in 1..Len(rec)} : pair[1] = key)[2]

KeysOf(rec) == {rec[j][1] : j \in 1..Len(rec)}

\* A record restricted to the keys of a filter, in the filter's order.
Restrict(rec, flt) ==
    LET ks == FirstOccurrences(flt)
    IN  [r \in 1..Len(ks) |-> <<ks[r], ValueIn(rec, ks[r])>>]

\* The responses received for position n, in order of arrival.
ResponsesAt(n) ==
    LET idx == {j \in 1..Len(calls) : calls[j].pos = n}
    IN  [r \in 1..Cardinality(idx) |-> calls[Nth(idx, r)].resp]

RECURSIVE Concat(_)
Concat(lists) == IF lists = <<>> THEN <<>> ELSE Head(lists) \o Concat(Tail(lists))

\* What a lookup batch is to store for position n, whose requests all
\* succeeded: the status field, the record (whole or restricted), or for
\* a listing the elements of its pages.
ExpectedAt(n) ==
    LET rs == ResponsesAt(n)
    IN  IF rs[1].kind = "record"
        THEN IF op = "status"
             THEN [rs[1] EXCEPT !.kind = "status", !.rec = <<>>,
                                !.text = ValueIn(rs[1].rec, "accountStatus")]
             ELSE IF noFilter THEN rs[1]
                  ELSE [rs[1] EXCEPT !.rec = Restrict(rs[1].rec, filter)]
        ELSE IF noFilter
             THEN [rs[1] EXCEPT !.list = Concat([r \in 1..Len(rs) |-> rs[r].list])]
             ELSE [rs[1] EXCEPT !.kind = "record", !.list = <<>>]

LastBefore(u, k) == CHOOSE n \in 1..(k - 1) :
    users[n] = u /\ \A m \in (n + 1)..(k - 1) : users[m] # u

(***************************************************************************)
(* C1.  Abort on first error: once the request for position k fails with   *)
(* an HTTP error, no request is issued for a later position, and exactly   *)
(* one request was issued for each position before k.                      *)
(***************************************************************************)
AbortOnFirstError ==
    \A j \in 1..Len(calls) :
        ~calls[j].ok =>
            /\ \A m \in 1..Len(calls) : calls[m].pos <= calls[j].pos
            /\ \A n \in 1..(calls[j].pos - 1) : CallsAt(n) = 1

(***************************************************************************)
(* C2.  Partial result retention, as claimed: when an Info or Status       *)
(* batch fails with an HTTP error at position k, every identifier at a     *)
(* position before k maps to the payload of its successful call, the       *)
(* identifier at k maps to the error text, and no identifier at a position *)
(* after k has an entry.                                                   *)
(***************************************************************************)
PartialResultRetention ==
    IsLookup /\ HttpFailed =>
        \A n \in 1..Len(users) :
            /\ n < FailPos =>
                  /\ DictHas(result, users[n])
                  /\ DictGet(result, users[n]) = ExpectedAt(n)
            /\ n = FailPos =>
                  /\ DictHas(result, users[n])
                  /\ DictGet(result, users[n]) = calls[Len(calls)].resp
            /\ n > FailPos => ~DictHas(result, users[n])

(***************************************************************************)
(* C2, amended for repeated identifiers: the failing identifier maps to    *)
(* the error text (also when it occurred before); every other identifier   *)
(* that occurs before k maps to the payload of its last occurrence before  *)
(* k; an identifier that does not occur up to k has no entry.              *)
(***************************************************************************)
PartialResultRetentionAmended ==
    IsLookup /\ HttpFailed =>
        \A u \in Ids :
            /\ u = users[FailPos] =>
                  /\ DictHas(result, u)
                  /\ DictGet(result, u) = calls[Len(calls)].resp
            /\ (u # users[FailPos] /\ \E n \in 1..(FailPos - 1) : users[n] = u) =>
                  /\ DictHas(result, u)
                  /\ DictGet(result, u) = ExpectedAt(LastBefore(u, FailPos))
            /\ (\A n \in 1..FailPos : users[n] # u) => ~DictHas(result, u)

PartialResultRetentionWitness ==
    /\ IsLookup
    /\ HttpFailed
    /\ FailPos = 3
    /\ users[1] = users[3]
    /\ users[2] # users[3]
    /\ Len(result) = 2

(***************************************************************************)
(* C3.  Delete is gated by confirmation: nothing is requested while the    *)
(* prompt is open; a declined run has issued no request, printed           *)
(* 'No actions taken.' and has an empty result; a confirmed run without    *)
(* failure has issued exactly one DELETE per identifier, in input order.   *)
(***************************************************************************)
DeleteGatedByConfirmation ==
    op = "delete" =>
        /\ Prompting => calls = <<>>
        /\ (~Prompting /\ answer \in {<<"n">>, <<"n", "o">>}) =>
              /\ calls = <<>>
              /\ result = <<>>
              /\ output = <<"No actions taken.">>
        /\ (pc = "done" /\ answer \in {<<"y">>, <<"y", "e", "s">>} /\ AllOk) =>
              /\ Len(calls) = Len(users)
              /\ \A j \in 1..Len(calls) :
                    /\ calls[j].method = "DELETE"
                    /\ calls[j].url = [id |-> users[j], page |-> 0]
                    /\ calls[j].pos = j

DeleteGatedByConfirmationWitness ==
    /\ op = "delete"
    /\ pc = "done"
    /\ answer = <<"y", "e", "s">>
    /\ prompts = 2
    /\ AllOk
    /\ Len(calls) = 3

(***************************************************************************)
(* C4.  Delete confirmation prompt: no DELETE is issued while prompting,   *)
(* and an answer is accepted exactly when it is y, yes, n or no ignoring   *)
(* letter case, at the first prompt and at every re-prompt.                *)
(***************************************************************************)
AnswerAcceptedIgnoringCase ==
    (op = "delete" /\ prompts >= 1) =>
        /\ Prompting => calls = <<>>
        /\ ~Prompting <=>
              Lower(answer) \in {<<"y">>, <<"y", "e", "s">>, <<"n">>, <<"n", "o">>}

(***************************************************************************)
(* C5.  Enable/Disable call count: every request of the batch is the PUT   *)
(* for the identifier at its position with the fixed body of the           *)
(* operation; a batch that ends without failure has issued one per         *)
(* identifier, its result is empty and nothing was printed.                *)
(***************************************************************************)
EnableDisableCallCount ==
    op \in {"enable", "disable"} =>
        /\ \A j \in 1..Len(calls) :
              /\ calls[j].method = "PUT"
              /\ calls[j].url = [id |-> users[j], page |-> 0]
              /\ calls[j].pos = j
              /\ calls[j].body = IF op = "enable" THEN "{\"status\": \"active\"}"
                                 ELSE "{\"status\": \"disabled\"}"
        /\ (pc = "done" /\ AllOk) =>
              /\ Len(calls) = Len(users)
              /\ result = <<>>
              /\ output = <<>>

EnableDisableCallCountWitness ==
    /\ op = "enable"
    /\ pc = "done"
    /\ AllOk
    /\ Len(calls) = 3
    /\ users[1] = users[3]

(***************************************************************************)
(* C6.  Info projection: for the latest processed occurrence of an         *)
(* identifier whose single-user fetch returned a record, the result entry  *)
(* is that record unmodified under --no-filter and, with filtering and     *)
(* all filter keys present, a record with exactly the filter's keys, in    *)
(* the filter's order, each with the value of the remote record.           *)
(***************************************************************************)
InfoProjection ==
    op = "info" =>
        \A j \in 1..Len(calls) :
            LET n == calls[j].pos
                remote == calls[j].resp.rec
                entry == DictGet(result, users[n])
            IN  (/\ calls[j].resp.kind = "record"
                 /\ \A m \in (n + 1)..i : users[m] # users[n]
                 /\ \A x \in 1..Len(filter) : noFilter \/ filter[x] \in KeysOf(remote)) =>
                    /\ DictHas(result, users[n])
                    /\ entry.kind = "record"
                    /\ noFilter => entry.rec = remote
                    /\ ~noFilter =>
                          /\ DictKeys(entry.rec) = FirstOccurrences(filter)
                          /\ \A x \in 1..Len(entry.rec) :
                                entry.rec[x][2] = ValueIn(remote, entry.rec[x][1])

\* The example of the specification: filter [username, accountStatus] on
\* {username: a, accountStatus: active, email: a@x.com}.
InfoProjectionWitness ==
    /\ op = "info"
    /\ ~noFilter
    /\ filter = <<"username", "accountStatus">>
    /\ calls # <<>>
    /\ calls[Len(calls)].resp.rec =
          << <<"username", "a">>, <<"accountStatus", "active">>, <<"email", "a@x.com">> >>
    /\ DictHas(result, "u1")
    /\ DictGet(result, "u1").rec = << <<"username", "a">>, <<"accountStatus", "active">> >>

\* The elements of the pages served to the latest listing, in fetch order.
PageElementsInOrder == Concat([j \in 1..Len(pages) |-> pages[j].elements])

\* The position whose identifier started the latest listing.
ListPos ==
    LET listing == {c \in 1..Len(calls) : calls[c].url.page > 0}
    IN  calls[CHOOSE c \in listing : \A d \in listing : d <= c].pos

(***************************************************************************)
(* C7.  Pagination, as claimed: the listing ends when the last fetched     *)
(* page has an empty (null) or absent nextPage cursor, and then returns    *)
(* the concatenation of the elements of the pages fetched.                 *)
(***************************************************************************)
PaginationStopsOnEmptyOrAbsent ==
    (/\ pages # <<>>
     /\ pages[Len(pages)].ok
     /\ pages[Len(pages)].next \in {"null", "empty", "absent"}) =>
        /\ ret.done
        /\ ret.val = PageElementsInOrder

(***************************************************************************)
(* C7, amended: the listing fetches page 1, 2, ... once each while the     *)
(* cursor is a URL; it returns exactly when the cursor of the last fetched *)
(* page is null or empty, and returns the concatenation of all pages'      *)
(* elements in fetch order; a failed page request or a page without the    *)
(* nextPage field makes the call fail with nothing returned.               *)
(***************************************************************************)
PaginationAmended ==
    /\ \A j \in 1..Len(pages) :
          /\ pages[j].url = j
          /\ j < Len(pages) => pages[j].ok /\ pages[j].next = "url"
          /\ Cardinality({c \in 1..Len(calls) :
                 calls[c].pos = ListPos /\ calls[c].url = [id |-> "", page |-> j]}) = 1
    /\ pc = "paging" =>
          /\ ~ret.done
          /\ pages = <<>> \/ (pages[Len(pages)].ok /\ pages[Len(pages)].next = "url")
          /\ page_users = PageElementsInOrder
    /\ (pc # "paging" /\ pages # <<>>) =>
          IF pages[Len(pages)].ok /\ pages[Len(pages)].next \in {"null", "empty"}
          THEN ret.done /\ ret.val = PageElementsInOrder
          ELSE /\ ~ret.done
               /\ ~pages[Len(pages)].ok \/ pages[Len(pages)].next = "absent"
               /\ pc \in {"fatal", "render", "done"}
    /\ pages = <<>> => ~ret.done

PaginationWitness ==
    /\ ret.done
    /\ Len(pages) = 2
    /\ pages[1].elements = <<11, 12>>
    /\ ret.val = <<11, 12, 21>>

\* The parts of C8: positions whose statement result[user] = ... has run,
\* the key order, the entries, and the requests per position.
Stored == IF pc \in {"paging", "fatal"} THEN i - 1 ELSE i

ResultKeysInFirstOccurrenceOrder ==
    IsLookup => DictKeys(result) = FirstOccurrences(SubSeq(users, 1, Stored))

ResultHoldsLatestOccurrence ==
    IsLookup =>
        \A n \in 1..Stored :
            (\A m \in (n + 1)..Stored : users[m] # users[n]) =>
                DictGet(result, users[n]) =
                    IF HttpFailed /\ n = FailPos THEN calls[Len(calls)].resp
                    ELSE ExpectedAt(n)

OneCallPerOccurrence ==
    IsLookup =>
        \A n \in 1..Len(users) :
            /\ CallsAt(n) <= 1
            /\ n > i => CallsAt(n) = 0
            /\ (n < i \/ (n = i /\ pc # "paging")) => CallsAt(n) = 1

(***************************************************************************)
(* C8.  Result ordering without deduplication: an Info or Status batch     *)
(* issues one request per occurrence of an identifier, the keys of the     *)
(* result are the identifiers in order of first occurrence, and each entry *)
(* holds what the latest processed occurrence stored.                      *)
(***************************************************************************)
ResultOrdering ==
    /\ OneCallPerOccurrence
    /\ ResultKeysInFirstOccurrenceOrder
    /\ ResultHoldsLatestOccurrence

(***************************************************************************)
(* C9.  Missing filter attribute is fatal: when a filtered Info batch      *)
(* receives a record that lacks a key of the filter, that request is the   *)
(* last one, the run is in the fatal state with a KeyError, the result     *)
(* holds only the records stored before and nothing was printed.           *)
(***************************************************************************)
MissingAttributeFatal ==
    (op = "info" /\ ~noFilter) =>
        \A j \in 1..Len(calls) :
            (/\ calls[j].resp.kind = "record"
             /\ \E x \in 1..Len(filter) : filter[x] \notin KeysOf(calls[j].resp.rec)) =>
                /\ j = Len(calls)
                /\ pc = "fatal"
                /\ exc = "KeyError"
                /\ output = <<>>
                /\ DictKeys(result) = FirstOccurrences(SubSeq(users, 1, calls[j].pos - 1))
                /\ \A x \in 1..Len(result) : result[x][2].kind = "record"

MissingAttributeFatalWitness ==
    /\ op = "info"
    /\ ~noFilter
    /\ pc = "fatal"
    /\ exc = "KeyError"
    /\ Len(users) = 3
    /\ users[1] = users[2]
    /\ Len(calls) = 2
    /\ calls[2].resp.kind = "record"
    /\ DictHas(result, users[2])

(***************************************************************************)
(* C10.  Per-identifier dispatch: every request of an Info or Status       *)
(* batch is the single-user fetch GET /users/{id} of the identifier at     *)
(* its position; the listing GET /users is never requested.                *)
(***************************************************************************)
SingleUserDispatch ==
    IsLookup =>
        \A j \in 1..Len(calls) :
            /\ calls[j].method = "GET"
            /\ calls[j].url = [id |-> users[calls[j].pos], page |-> 0]
            /\ calls[j].resp.kind # "list"

====
